---- MODULE Spec2Model ----
(***************************************************************************)
(* lt::async: async_base::map, async::map_concurrently,                    *)
(* async_retry::map_concurrently_retry and                                 *)
(* async_preemptible_retry::map_concurrently_preemptible_retry.            *)
(*                                                                         *)
(* A behaviour is one driver that calls map on an input vector (the        *)
(* sequential reference, async.h:25-27) and then one of the three          *)
(* concurrent operations on the same vector with the same action.  The     *)
(* main thread walks the spawn, join and fold loops of map_concurrently;   *)
(* every spawned std::async task is a unit that interleaves freely with    *)
(* the main thread and with its siblings.                                  *)
(*                                                                         *)
(* An attempt is two steps (the action is entered, the action returns), so *)
(* that the flag of the preemptible variant can change while attempts are  *)
(* in flight.  The action reports failure through its result only.  The    *)
(* retry loops of lt::retry are not part of these sources: retry, UnitRetry*)
(* and UnitPreempt follow their documented contract, a limit on retries    *)
(* and a check of cond() before each further attempt.                      *)
(***************************************************************************)
EXTENDS Naturals, Sequences, FiniteSets

\* ---------------------------------------------------------------- bounds

\* longest input vector
MaxLen == 2

\* limitRetries(n) of the retry policy handed to the constructor
MaxRetries == 2

\* ------------------------------------------------------- values and types

\* payloads of input elements: an output or error is named after its input
Vals == {1, 2}

\* 0: the action never fails on this input; n > 0: it returns an Error from
\* its n-th invocation on (1: always, a pure action; 2: after one Output)
FailFroms == {0, 1, 2}

Inputs == [val : Vals, failFrom : FailFroms]

\* tl::expected<output_type, error_type> holding a value
Ok(v) == [tag |-> "ok", val |-> v]

\* tl::unexpected(e)
Err(e) == [tag |-> "err", err |-> e]

\* no value yet (a future that is not ready, a call that has not returned)
None == [tag |-> "none"]

Calls == {"map_concurrently", "map_concurrently_retry",
          "map_concurrently_preemptible_retry"}

Terminal == {"Succeeded", "Failed", "Exhausted", "Preempted"}

VARIABLES
    input,            \* const std::vector<input_type>& input
    K,                \* should_retry answers true while the status counts < K
    call,             \* the concurrent operation the driver calls after map
    seq_invoked,      \* indices map has invoked f on, in order
    seq_output,       \* map: std::vector<output_type> output
    seq_ret,          \* map: the returned aggregate_result_t
    futures,          \* map_concurrently: the futures pushed, with their tasks
    completed,        \* units in the order their tasks finished
    results,          \* map_concurrently: std::vector<attempt_result_t> results
    output,           \* map_concurrently: std::vector<output_type> output
    ret,              \* map_concurrently: the returned aggregate_result_t
    signal_condition, \* the caller's flag read by cond()
    calls_at_signal   \* per unit: invocations begun when the flag was set

vars == <<input, K, call, seq_invoked, seq_output, seq_ret, futures,
          completed, results, output, ret, signal_condition, calls_at_signal>>

seqVars == <<seq_invoked, seq_output, seq_ret>>
argVars == <<input, K, call>>
foldVars == <<results, output, ret>>
sigVars == <<signal_condition, calls_at_signal>>

N == Len(input)

\* position of the main thread, read off the loops' own data
pc ==
    IF seq_ret = None THEN "map"
    ELSE IF ret # None THEN "done"
    ELSE IF Len(futures) < N THEN "spawn"
    ELSE IF Len(results) < N THEN "join"
    ELSE "fold"

\* ----------------------------------------------------- caller's closures

\* the action f on input element i, at its n-th invocation on that element
f(i, n) ==
    IF i.failFrom > 0 /\ n >= i.failFrom THEN Err(i.val) ELSE Ok(i.val)

\* the caller's predicate: retry while the status counts fewer than K retries
should_retry(retry_status, o) == retry_status < K

\* cond(): reads the caller's flag
cond == signal_condition

\* ------------------------------------------------------------------ Init

\* a task that std::async has just launched on its copy i of an input element
NewTask(i) ==
    [arg |-> i, st |-> "Pending", retry_status |-> 0, last |-> None,
     calls |-> 0, asks |-> 0]

Init ==
    /\ input \in UNION {[1..n -> Inputs] : n \in 0..MaxLen}
    /\ K \in 0..(MaxRetries + 1)
    /\ call \in Calls
    /\ seq_invoked = <<>>
    /\ seq_output = <<>>
    /\ seq_ret = None
    /\ futures = <<>>
    /\ completed = <<>>
    /\ results = <<>>
    /\ output = <<>>
    /\ ret = None
    /\ signal_condition = FALSE
    /\ calls_at_signal = [u \in 1..N |-> 0]

\* ------------------------------------------------------- async_base::map

\* MapStep with `continue` in place of the return: a failing input is skipped
MapStep_continue ==
    /\ pc = "map"
    /\ Len(seq_invoked) < N
    /\ LET idx == Len(seq_invoked) + 1
           o == f(input[idx], 1)
       IN /\ seq_invoked' = Append(seq_invoked, idx)
          /\ seq_output' = IF o.tag = "err" THEN seq_output
                           ELSE Append(seq_output, o.val)
          /\ seq_ret' = seq_ret
    /\ UNCHANGED <<argVars, futures, completed, foldVars, sigVars>>

\* one iteration of map's loop: invoke f, return its error or push its value
MapStep ==
    /\ pc = "map"
    /\ Len(seq_invoked) < N
    /\ LET idx == Len(seq_invoked) + 1
           o == f(input[idx], 1)
       IN /\ seq_invoked' = Append(seq_invoked, idx)
          /\ IF o.tag = "err"
             THEN /\ seq_ret' = Err(o.err)
                  /\ seq_output' = seq_output
             ELSE /\ seq_output' = Append(seq_output, o.val)
                  /\ seq_ret' = seq_ret
    /\ UNCHANGED <<argVars, futures, completed, foldVars, sigVars>>

\* the loop is over: return output
MapReturn ==
    /\ pc = "map"
    /\ Len(seq_invoked) = N
    /\ seq_ret' = Ok(seq_output)
    /\ UNCHANGED <<argVars, seq_invoked, seq_output, futures, completed,
                   foldVars, sigVars>>

\* ------------------------------------------------ async::map_concurrently

\* Spawn with every task bound to the vector's first element
Spawn_firstInput ==
    /\ pc = "spawn"
    /\ futures' = Append(futures, NewTask(input[1]))
    /\ UNCHANGED <<argVars, seqVars, completed, foldVars, sigVars>>

\* futures.push_back(std::async(std::launch::async, f, i))
Spawn ==
    /\ pc = "spawn"
    /\ futures' = Append(futures, NewTask(input[Len(futures) + 1]))
    /\ UNCHANGED <<argVars, seqVars, completed, foldVars, sigVars>>

\* Get taking the futures as they become ready instead of in index order
Get_completionOrder ==
    /\ pc = "join"
    /\ LET j == Len(results) + 1
       IN /\ j <= Len(completed)
          /\ results' = Append(results, futures[completed[j]].last)
    /\ UNCHANGED <<argVars, seqVars, futures, completed, output, ret,
                   sigVars>>

\* Get returning from the join loop as soon as it has fetched an error
Get_earlyReturn ==
    /\ pc = "join"
    /\ LET j == Len(results) + 1
       IN /\ futures[j].st \in Terminal
          /\ results' = Append(results, futures[j].last)
          /\ ret' = IF futures[j].last.tag = "err"
                    THEN Err(futures[j].last.err) ELSE ret
    /\ UNCHANGED <<argVars, seqVars, futures, completed, output,
                   sigVars>>

\* Get raising the flag itself when it fetches an error, to stop the siblings
Get_signalOnError ==
    /\ pc = "join"
    /\ LET j == Len(results) + 1
       IN /\ futures[j].st \in Terminal
          /\ results' = Append(results, futures[j].last)
          /\ signal_condition' = (signal_condition \/ futures[j].last.tag = "err")
    /\ UNCHANGED <<argVars, seqVars, futures, completed, output, ret,
                   calls_at_signal>>

\* results.push_back(f.get()): blocks until the next future is ready
Get ==
    /\ pc = "join"
    /\ LET j == Len(results) + 1
       IN /\ futures[j].st \in Terminal
          /\ results' = Append(results, futures[j].last)
    /\ UNCHANGED <<argVars, seqVars, futures, completed, output, ret,
                   sigVars>>

\* FoldStep walking the results from the back
FoldStep_lastError ==
    /\ pc = "fold"
    /\ Len(output) < Len(results)
    /\ LET r == results[Len(results) - Len(output)]
       IN IF r.tag = "err"
          THEN /\ ret' = Err(r.err)
               /\ output' = output
          ELSE /\ output' = Append(output, r.val)
               /\ ret' = ret
    /\ UNCHANGED <<argVars, seqVars, futures, completed, results,
                   sigVars>>

\* FoldStep inserting each value at the front of output
FoldStep_prepend ==
    /\ pc = "fold"
    /\ Len(output) < Len(results)
    /\ LET r == results[Len(output) + 1]
       IN IF r.tag = "err"
          THEN /\ ret' = Err(r.err)
               /\ output' = output
          ELSE /\ output' = <<r.val>> \o output
               /\ ret' = ret
    /\ UNCHANGED <<argVars, seqVars, futures, completed, results,
                   sigVars>>

\* one iteration of the last loop: return the error or push the value
FoldStep ==
    /\ pc = "fold"
    /\ Len(output) < Len(results)
    /\ LET r == results[Len(output) + 1]
       IN IF r.tag = "err"
          THEN /\ ret' = Err(r.err)
               /\ output' = output
          ELSE /\ output' = Append(output, r.val)
               /\ ret' = ret
    /\ UNCHANGED <<argVars, seqVars, futures, completed, results,
                   sigVars>>

\* FoldReturn reporting an empty output vector as a failure
FoldReturn_emptyIsError ==
    /\ pc = "fold"
    /\ Len(output) = Len(results)
    /\ ret' = IF output = <<>> THEN Err(0) ELSE Ok(output)
    /\ UNCHANGED <<argVars, seqVars, futures, completed, results, output,
                   sigVars>>

\* the loop is over: return output
FoldReturn ==
    /\ pc = "fold"
    /\ Len(output) = Len(results)
    /\ ret' = Ok(output)
    /\ UNCHANGED <<argVars, seqVars, futures, completed, results, output,
                   sigVars>>

\* ------------------------------------------------------------- the units

\* the limit of the RetryPolicy the constructor stored in retry_policy_
retry_policy_ == MaxRetries

\* inner_action: ignores the status and calls f on the task's own input;
\* t.calls already counts this invocation
inner_action(t) == f(t.arg, t.calls)

\* inner_should_retry with value_or(true): an Error is retried
inner_should_retry_retryErrors(retry_status, result) ==
    IF result.tag = "ok"
    THEN [retry |-> should_retry(retry_status, result.val), asked |-> TRUE]
    ELSE [retry |-> TRUE, asked |-> FALSE]

\* inner_should_retry: result.map(g).value_or(false); g, and so
\* should_retry, runs only on a value
inner_should_retry(retry_status, result) ==
    IF result.tag = "ok"
    THEN [retry |-> should_retry(retry_status, result.val), asked |-> TRUE]
    ELSE [retry |-> FALSE, asked |-> FALSE]

\* RetryPolicy::retry / PreemptibleRetry::retry once an attempt has returned
\* and the predicate has answered: stop with the last result, or count one
\* more retry while the limit allows it
retry(t, again) ==
    IF ~again
    THEN [t EXCEPT !.st = IF t.last.tag = "ok" THEN "Succeeded" ELSE "Failed"]
    ELSE IF t.retry_status < retry_policy_
    THEN [t EXCEPT !.st = "Retrying", !.retry_status = @ + 1]
    ELSE [t EXCEPT !.st = "Exhausted"]

\* retry_f asking the predicate about the status of the retry to come
retry_f_nextStatus(t, r) ==
    LET d == inner_should_retry(t.retry_status + 1, r)
    IN retry([t EXCEPT !.last = r,
                       !.asks = IF d.asked THEN @ + 1 ELSE @], d.retry)

\* retry_f reporting a unit the policy gave up on as an Error
retry_f_exhaustedIsError(t, r) ==
    LET d == inner_should_retry(t.retry_status, r)
        t2 == retry([t EXCEPT !.last = r,
                              !.asks = IF d.asked THEN @ + 1 ELSE @], d.retry)
    IN IF t2.st = "Exhausted" THEN [t2 EXCEPT !.last = Err(t.arg.val)] ELSE t2

\* retry_f keeping the first Output it has seen as the unit's result
retry_f_keepFirstOutput(t, r) ==
    LET d == inner_should_retry(t.retry_status, r)
        kept == IF t.last.tag = "ok" THEN t.last ELSE r
    IN [retry([t EXCEPT !.last = r,
                        !.asks = IF d.asked THEN @ + 1 ELSE @], d.retry)
          EXCEPT !.last = kept]

\* the retries counted by all units together
RECURSIVE TotalRetries(_)
TotalRetries(n) ==
    IF n = 0 THEN 0 ELSE futures[n].retry_status + TotalRetries(n - 1)

\* retry_f with one RetryStatus kept in the object and shared by all units
retry_f_sharedStatus(t, r) ==
    LET d == inner_should_retry(TotalRetries(Len(futures)), r)
    IN retry([t EXCEPT !.last = r,
                       !.asks = IF d.asked THEN @ + 1 ELSE @], d.retry)

\* retry_f granting one retry of its own when the policy has given up
retry_f_oneMore(t, r) ==
    LET d == inner_should_retry(t.retry_status, r)
        t2 == retry([t EXCEPT !.last = r,
                              !.asks = IF d.asked THEN @ + 1 ELSE @], d.retry)
    IN IF t2.st = "Exhausted" /\ t.retry_status = retry_policy_
       THEN [t2 EXCEPT !.st = "Retrying", !.retry_status = @ + 1]
       ELSE t2

\* retry_f of map_concurrently_retry: hand the attempt's result to the
\* adapted predicate and the policy
retry_f(t, r) ==
    LET d == inner_should_retry(t.retry_status, r)
    IN retry([t EXCEPT !.last = r,
                       !.asks = IF d.asked THEN @ + 1 ELSE @], d.retry)

\* the preemptible inner_should_retry with value_or(true)
preemptible_inner_should_retry_retryErrors(retry_status, result) ==
    IF result.tag = "ok"
    THEN [retry |-> should_retry(retry_status, result.val), asked |-> TRUE]
    ELSE [retry |-> TRUE, asked |-> FALSE]

\* inner_should_retry of map_concurrently_preemptible_retry: the same
\* adaptation over a PreemptibleRetryStatus
preemptible_inner_should_retry(retry_status, result) ==
    IF result.tag = "ok"
    THEN [retry |-> should_retry(retry_status, result.val), asked |-> TRUE]
    ELSE [retry |-> FALSE, asked |-> FALSE]

\* retry_f of map_concurrently_preemptible_retry
preemptible_retry_f(t, r) ==
    LET d == preemptible_inner_should_retry(t.retry_status, r)
    IN retry([t EXCEPT !.last = r,
                       !.asks = IF d.asked THEN @ + 1 ELSE @], d.retry)

\* a task of plain map_concurrently: f(i) is the task's whole body
plain_f(t, r) ==
    [t EXCEPT !.last = r,
              !.st = IF r.tag = "ok" THEN "Succeeded" ELSE "Failed"]

\* UnitStart giving up, with a failed sibling's error, once a sibling failed
UnitStart_cancelOnFailure(u) ==
    /\ u \in 1..Len(futures)
    /\ futures[u].st = "Pending"
    /\ LET failed == {v \in 1..Len(futures) : futures[v].st = "Failed"}
       IN IF failed = {}
          THEN /\ futures' = [futures EXCEPT ![u].st = "Attempting",
                                             ![u].calls = @ + 1]
               /\ completed' = completed
          ELSE /\ futures' = [futures EXCEPT
                                ![u].st = "Failed",
                                ![u].last = futures[CHOOSE v \in failed : TRUE].last]
               /\ completed' = Append(completed, u)
    /\ UNCHANGED <<argVars, seqVars, foldVars, sigVars>>

\* UnitStart under std::launch::deferred: the task runs only once the main
\* thread waits for it in get()
UnitStart_deferred(u) ==
    /\ u \in 1..Len(futures)
    /\ futures[u].st = "Pending"
    /\ pc = "join"
    /\ Len(results) + 1 = u
    /\ futures' = [futures EXCEPT ![u].st = "Attempting", ![u].calls = @ + 1]
    /\ UNCHANGED <<argVars, seqVars, completed, foldVars, sigVars>>

\* the task of unit u enters the action for the first time
UnitStart(u) ==
    /\ u \in 1..Len(futures)
    /\ futures[u].st = "Pending"
    /\ futures' = [futures EXCEPT ![u].st = "Attempting", ![u].calls = @ + 1]
    /\ UNCHANGED <<argVars, seqVars, completed, foldVars, sigVars>>

\* the action of unit u returns
UnitFinish(u) ==
    /\ u \in 1..Len(futures)
    /\ futures[u].st = "Attempting"
    /\ LET t == futures[u]
           r == inner_action(t)
           t2 == CASE call = "map_concurrently" -> plain_f(t, r)
                   [] call = "map_concurrently_retry" -> retry_f(t, r)
                   [] OTHER -> preemptible_retry_f(t, r)
       IN /\ futures' = [futures EXCEPT ![u] = t2]
          /\ completed' = IF t2.st \in Terminal THEN Append(completed, u)
                          ELSE completed
    /\ UNCHANGED <<argVars, seqVars, foldVars, sigVars>>

\* the cond that retry_f of map_concurrently_preemptible_retry never consults
policy_cond_dropped == FALSE

\* the cond that retry_f of map_concurrently_preemptible_retry hands to
\* policy_.retry: the caller's, unchanged
policy_cond == cond

\* the delay of unit u is over and it attempts again; the preemptible policy
\* starts no attempt once it has seen cond() true
UnitRetry(u) ==
    /\ u \in 1..Len(futures)
    /\ futures[u].st = "Retrying"
    /\ call = "map_concurrently_preemptible_retry" => ~policy_cond
    /\ futures' = [futures EXCEPT ![u].st = "Attempting", ![u].calls = @ + 1]
    /\ UNCHANGED <<argVars, seqVars, completed, foldVars, sigVars>>

\* the preemptible policy of unit u sees cond() true while it waits: it stops
\* with the last result
UnitPreempt(u) ==
    /\ u \in 1..Len(futures)
    /\ futures[u].st = "Retrying"
    /\ call = "map_concurrently_preemptible_retry"
    /\ policy_cond
    /\ futures' = [futures EXCEPT ![u].st = "Preempted"]
    /\ completed' = Append(completed, u)
    /\ UNCHANGED <<argVars, seqVars, foldVars, sigVars>>

\* the invocations each unit has begun so far
CallsNow ==
    [u \in 1..N |-> IF u <= Len(futures) THEN futures[u].calls ELSE 0]

\* the caller sets the flag from a thread of its own while the call is running
SetSignal ==
    /\ call = "map_concurrently_preemptible_retry"
    /\ pc \in {"spawn", "join"}
    /\ ~signal_condition
    /\ signal_condition' = TRUE
    /\ calls_at_signal' = CallsNow
    /\ UNCHANGED <<argVars, seqVars, futures, completed, foldVars>>

\* the action of unit u, while it runs, detects the condition and sets the flag
ActionSetsSignal(u) ==
    /\ call = "map_concurrently_preemptible_retry"
    /\ u \in 1..Len(futures)
    /\ futures[u].st = "Attempting"
    /\ ~signal_condition
    /\ signal_condition' = TRUE
    /\ calls_at_signal' = CallsNow
    /\ UNCHANGED <<argVars, seqVars, futures, completed, foldVars>>

\* ------------------------------------------------------------------ Spec

Next ==
    \/ MapStep
    \/ MapReturn
    \/ Spawn
    \/ Get
    \/ FoldStep
    \/ FoldReturn
    \/ SetSignal
    \/ \E u \in 1..MaxLen : UnitStart(u)
    \/ \E u \in 1..MaxLen : UnitFinish(u)
    \/ \E u \in 1..MaxLen : UnitRetry(u)
    \/ \E u \in 1..MaxLen : UnitPreempt(u)
    \/ \E u \in 1..MaxLen : ActionSetsSignal(u)

Spec == Init /\ [][Next]_vars

\* the steps of the calling thread
MainStep == MapStep \/ MapReturn \/ Spawn \/ Get \/ FoldStep \/ FoldReturn

\* the steps of the thread of unit u
UnitStep(u) == UnitStart(u) \/ UnitFinish(u) \/ UnitRetry(u) \/ UnitPreempt(u)

\* every thread that can run is eventually scheduled and every invocation of
\* the action returns; nothing obliges the caller to set the flag
FairSpec ==
    /\ Spec
    /\ WF_vars(MainStep)
    /\ \A u \in 1..MaxLen : WF_vars(UnitStep(u))

\* ---------------------------------------------------------------- claims

\* unit i finished before unit j
FinishedBefore(i, j) ==
    \E p, q \in 1..Len(completed) :
        p < q /\ completed[p] = i /\ completed[q] = j

Min(S) == CHOOSE x \in S : \A y \in S : x <= y

\* the units whose final result is an Error
Failing == {u \in 1..Len(futures) : futures[u].last.tag = "err"}

\* the action is a pure function of its input: the same result every time
Deterministic == \A i \in 1..N : input[i].failFrom \in {0, 1}

\* C1: when a map_concurrently* call has returned, its result is an Error
\* exactly if some unit's result is an Error, and then it is the error of the
\* failing unit with the lowest index, whatever the units' finishing order.
C1_LowestIndexError ==
    pc = "done" =>
        /\ (ret.tag = "err") <=> (Failing # {})
        /\ ret.tag = "err" => ret = Err(futures[Min(Failing)].last.err)

\* C1 witness: two units failed with different errors, the higher index
\* finished first, and the call returned.
C1_Witness ==
    /\ pc = "done"
    /\ ret.tag = "err"
    /\ \E i, j \in Failing :
          /\ i < j
          /\ futures[i].last # futures[j].last
          /\ FinishedBefore(j, i)

\* C2: with an action that is a pure function of its input, every
\* interleaving of a map_concurrently* call returns the one result that the
\* interleaving-free sequential run on the same input returns, so no two
\* executions differ.
C2_OrderIndependent ==
    (Deterministic /\ pc = "done") => ret = seq_ret

\* C2 witness: a returned call on a pure action whose units finished against
\* the index order, one of them failing.
C2_Witness ==
    /\ Deterministic
    /\ pc = "done"
    /\ Failing # {}
    /\ \E i, j \in 1..Len(futures) :
          i < j /\ FinishedBefore(j, i) /\ futures[i].last # futures[j].last

\* C3: when every unit ended with an Output, the returned value is a success
\* sequence as long as the input whose i-th element is unit i's Output.
C3_OutputsInInputOrder ==
    (pc = "done" /\ Failing = {}) =>
        /\ ret.tag = "ok"
        /\ Len(ret.val) = N
        /\ \A i \in 1..N : ret.val[i] = futures[i].last.val

\* C3 witness: two units with different Outputs, the higher index finished
\* first, and the call returned a success.
C3_Witness ==
    /\ pc = "done"
    /\ ret.tag = "ok"
    /\ \E i, j \in 1..Len(futures) :
          i < j /\ FinishedBefore(j, i) /\ futures[i].last # futures[j].last

\* C4: the main thread is past the join loop (folding or returned) only when
\* every input has a unit and every unit has completed.
C4_JoinBarrier ==
    pc \in {"fold", "done"} =>
        /\ Len(futures) = N
        /\ \A u \in 1..N : futures[u].st \in Terminal

\* C4 witness: a lower-index unit failed before a higher-index unit had
\* finished, and the call returned its error only after both were complete.
C4_Witness ==
    /\ pc = "done"
    /\ ret.tag = "err"
    /\ \E i, j \in 1..Len(futures) :
          /\ i < j
          /\ futures[i].st = "Failed"
          /\ FinishedBefore(i, j)

\* the first-invocation results map sees
SeqFailing == {i \in 1..N : f(input[i], 1).tag = "err"}

\* C5: map_concurrently never holds more units than inputs, holds one per
\* input once the spawn loop is over, each on its own input element, and has
\* invoked the action exactly once per input when it is past the join loop,
\* whether or not a sibling failed.
C5_EveryInputOnce ==
    /\ Len(futures) <= N
    /\ \A u \in 1..Len(futures) : futures[u].arg = input[u]
    /\ pc \in {"join", "fold", "done"} => Len(futures) = N
    /\ call = "map_concurrently" =>
          /\ \A u \in 1..Len(futures) : futures[u].calls <= 1
          /\ pc \in {"fold", "done"} =>
                \A u \in 1..Len(futures) : futures[u].calls = 1

\* C5 witness: plain map_concurrently returned; one unit failed before its
\* sibling had finished, and the sibling still ran its action once.
C5_Witness ==
    /\ call = "map_concurrently"
    /\ pc = "done"
    /\ \E i, j \in 1..Len(futures) :
          /\ futures[i].st = "Failed"
          /\ FinishedBefore(i, j)
          /\ futures[j].st = "Succeeded"
          /\ futures[j].calls = 1

\* C6: map invokes the action index by index; with a first failing index k
\* it invokes exactly 1..k and returns that input's error, otherwise it
\* invokes every index once and returns the outputs in input order.
C6_MapFailFast ==
    /\ \A p \in 1..Len(seq_invoked) : seq_invoked[p] = p
    /\ SeqFailing # {} => Len(seq_invoked) <= Min(SeqFailing)
    /\ seq_ret # None =>
          IF SeqFailing = {}
          THEN /\ Len(seq_invoked) = N
               /\ seq_ret = Ok([i \in 1..N |-> input[i].val])
          ELSE /\ Len(seq_invoked) = Min(SeqFailing)
               /\ seq_ret = Err(input[Min(SeqFailing)].val)

\* C6 witness: map returned the error of a failing input that is followed by
\* an input it never invoked.
C6_Witness ==
    /\ seq_ret.tag = "err"
    /\ Len(seq_invoked) < N
    /\ seq_ret = Err(input[Len(seq_invoked)].val)

\* C7: on the same input, map_concurrently returns what map returned; both
\* invoke the action once per input when no input fails, and map never
\* invokes it more often than map_concurrently.
C7_MapEquivalence ==
    (call = "map_concurrently" /\ pc = "done") =>
        /\ ret = seq_ret
        /\ Len(seq_invoked) <= N
        /\ seq_ret.tag = "ok" =>
              /\ Len(seq_invoked) = N
              /\ \A u \in 1..N : futures[u].calls = 1

\* C7 witness: both returned the same error, map after fewer invocations
\* than map_concurrently.
C7_Witness ==
    /\ call = "map_concurrently"
    /\ pc = "done"
    /\ ret.tag = "err"
    /\ ret = seq_ret
    /\ Len(seq_invoked) < N
    /\ \A u \in 1..N : futures[u].calls = 1

\* C8: on an empty input no unit is ever spawned and the action is never
\* invoked; map and the concurrent call both return the empty success
\* sequence.
C8_EmptyInput ==
    N = 0 =>
        /\ futures = <<>>
        /\ seq_invoked = <<>>
        /\ seq_ret # None => seq_ret = Ok(<<>>)
        /\ pc = "done" => ret = Ok(<<>>)

\* C8 witness: the retry call on an empty input has returned.
C8_Witness ==
    /\ N = 0
    /\ call # "map_concurrently"
    /\ pc = "done"
    /\ seq_ret = Ok(<<>>)

\* C9: in both retry variants a unit whose attempt returned an Error is
\* Failed at once with that Error as its result, should_retry was consulted
\* for each earlier Output but not for the Error, and no attempt follows the
\* Error: a unit never invokes the action beyond its first failing
\* invocation, and a unit failing on its first invocation ends with one
\* invocation and no consultation.
C9_ErrorTerminal ==
    call # "map_concurrently" =>
        \A u \in 1..Len(futures) :
            LET t == futures[u]
            IN /\ t.last.tag = "err" =>
                    /\ t.st = "Failed"
                    /\ t.last = Err(t.arg.val)
                    /\ t.calls = t.arg.failFrom
                    /\ t.asks = t.calls - 1
               /\ t.st = "Failed" => t.last.tag = "err"
               /\ t.arg.failFrom > 0 => t.calls <= t.arg.failFrom
               /\ (t.arg.failFrom = 1 /\ t.st \notin {"Pending", "Attempting"})
                      => (t.st = "Failed" /\ t.calls = 1 /\ t.asks = 0)
               /\ (u <= Len(results) /\ t.st = "Failed") => results[u] = t.last

\* C9 witness: a unit whose first attempt returned an Output that
\* should_retry wanted retried, whose second attempt returned an Error while
\* should_retry would still have answered true, has failed and been joined.
C9_Witness ==
    /\ call # "map_concurrently"
    /\ \E u \in 1..Len(results) :
          /\ futures[u].st = "Failed"
          /\ futures[u].calls = 2
          /\ futures[u].asks = 1
          /\ should_retry(futures[u].retry_status, futures[u].arg.val)
          /\ futures[u].retry_status < retry_policy_

\* C10 as stated: in map_concurrently_retry, with should_retry answering true
\* K times and then false and an action that always returns an Output, a
\* finished unit has invoked the action exactly K + 1 times.
C10_Original ==
    call = "map_concurrently_retry" =>
        \A u \in 1..Len(futures) :
            (futures[u].arg.failFrom = 0 /\ futures[u].st \in Terminal)
                => futures[u].calls = K + 1

\* C10 amended: such a unit has invoked the action K + 1 times when the
\* policy's limit allows K retries, and limit + 1 times otherwise, ending
\* Succeeded in the first case and Exhausted in the second.
C10_AttemptsWithinLimit ==
    call = "map_concurrently_retry" =>
        \A u \in 1..Len(futures) :
            (futures[u].arg.failFrom = 0 /\ futures[u].st \in Terminal)
                => IF K <= retry_policy_
                   THEN /\ futures[u].calls = K + 1
                        /\ futures[u].asks = K + 1
                        /\ futures[u].st = "Succeeded"
                   ELSE /\ futures[u].calls = retry_policy_ + 1
                        /\ futures[u].st = "Exhausted"

\* C10 witness: a unit retried K >= 1 times within the limit and succeeded
\* on invocation K + 1.
C10_Witness ==
    /\ call = "map_concurrently_retry"
    /\ K >= 1
    /\ \E u \in 1..Len(futures) :
          /\ futures[u].arg.failFrom = 0
          /\ futures[u].st = "Succeeded"
          /\ futures[u].calls = K + 1

\* C11: in map_concurrently_retry a unit the policy stopped while
\* should_retry still answered true ends with the Output of its last attempt,
\* that Output is what the join collects, and when every unit ended with an
\* Output (accepted or exhausted) the call returns the success sequence of
\* those Outputs.
C11_ExhaustedIsOutput ==
    call = "map_concurrently_retry" =>
        /\ \A u \in 1..Len(futures) :
              futures[u].st = "Exhausted" =>
                  /\ futures[u].last = Ok(futures[u].arg.val)
                  /\ should_retry(futures[u].retry_status, futures[u].last.val)
                  /\ futures[u].calls = retry_policy_ + 1
                  /\ u <= Len(results) => results[u] = futures[u].last
        /\ (pc = "done" /\ \A u \in 1..N : futures[u].last.tag = "ok") =>
              ret = Ok([u \in 1..N |-> futures[u].last.val])

\* C11 witness: the call returned a success although one of its units was
\* stopped by the policy with should_retry still true.
C11_Witness ==
    /\ call = "map_concurrently_retry"
    /\ pc = "done"
    /\ ret.tag = "ok"
    /\ \E u \in 1..N :
          /\ futures[u].st = "Exhausted"
          /\ should_retry(futures[u].retry_status, futures[u].last.val)

ListedTransition(a, b) ==
    \/ /\ a.st = "Pending" /\ b.st = "Attempting"
       /\ b.calls = a.calls + 1
    \/ /\ a.st = "Attempting" /\ b.st = "Succeeded"
       /\ b.last.tag = "ok"
       /\ ~should_retry(a.retry_status, b.last.val)
    \/ /\ a.st = "Attempting" /\ b.st = "Retrying"
       /\ b.last.tag = "ok"
       /\ should_retry(a.retry_status, b.last.val)
       /\ a.retry_status < retry_policy_
    \/ /\ a.st = "Retrying" /\ b.st = "Attempting"
       /\ b.calls = a.calls + 1
    \/ /\ a.st = "Attempting" /\ b.st = "Failed"
       /\ b.last.tag = "err"
    \/ /\ a.st = "Attempting" /\ b.st = "Exhausted"
       /\ b.last.tag = "ok"
       /\ should_retry(a.retry_status, b.last.val)
       /\ a.retry_status >= retry_policy_

\* a waiting unit of the preemptible variant is stopped by the flag and keeps
\* its last Output
StoppedByFlag(a, b) ==
    /\ call = "map_concurrently_preemptible_retry"
    /\ signal_condition
    /\ a.st = "Retrying" /\ b.st = "Preempted"
    /\ b = [a EXCEPT !.st = "Preempted"]
    /\ a.last.tag = "ok"

C14_LastAttemptResult ==
    call # "map_concurrently" =>
        /\ \A u \in 1..Len(futures) :
              LET t == futures[u]
              IN /\ t.arg = input[u]
                 /\ t.st \notin {"Pending", "Attempting"}
                        => t.last = f(input[u], t.calls)
                 /\ (t.st = "Attempting" /\ t.calls > 1)
                        => t.last = f(input[u], t.calls - 1)
                 /\ (u <= Len(results) /\ t.st \in Terminal)
                        => results[u] = f(input[u], t.calls)
        /\ (pc = "done" /\ \E u \in 1..N : f(input[u], futures[u].calls).tag = "err")
              => ret.tag = "err"

\* C14 witness: a unit whose first attempt returned an Output and whose
\* second returned an Error was joined with that Error, and the call returned
\* it.
C14_Witness ==
    /\ call # "map_concurrently"
    /\ pc = "done"
    /\ \E u \in 1..N :
          /\ futures[u].calls = 2
          /\ f(input[u], 1).tag = "ok"
          /\ results[u].tag = "err"
          /\ ret = Err(results[u].err)

\* the number of attempts a unit of map_concurrently_retry makes on input
\* element i, from its own results, should_retry's answers and the limit
OwnAttempts(i) ==
    LET byPredicate == (IF K <= retry_policy_ THEN K ELSE retry_policy_) + 1
    IN IF i.failFrom > 0 /\ i.failFrom <= byPredicate THEN i.failFrom
       ELSE byPredicate

\* C15: a step that changes one unit (its status, counters, result or state)
\* leaves every other unit unchanged, in every variant; a unit's status
\* counts its own retries only; and in map_concurrently_retry the number of
\* attempts of a finished unit is the number its own input determines,
\* whatever its siblings did.
C15_PerUnitRetryState ==
    /\ [](\A u \in 1..Len(futures) :
             /\ futures[u].retry_status <= retry_policy_
             /\ futures[u].st \in Terminal =>
                   futures[u].retry_status \in
                       {futures[u].calls - 1, futures[u].calls}
             /\ (call = "map_concurrently_retry" /\ futures[u].st \in Terminal)
                   => futures[u].calls = OwnAttempts(futures[u].arg))
    /\ [][\A u, v \in 1..Len(futures) :
             (u # v /\ futures'[u] # futures[u]) => futures'[v] = futures[v]]_vars

\* C15 witness: map_concurrently_retry returned with one unit that used the
\* whole budget beside a sibling that made a single attempt.
C15_Witness ==
    /\ call = "map_concurrently_retry"
    /\ pc = "done"
    /\ \E u, v \in 1..N :
          /\ futures[u].calls = retry_policy_ + 1
          /\ futures[v].calls = 1

\* C16: a step that changes the value cond() reads belongs to the caller or
\* to its action: it happens in the preemptible call only and touches nothing
\* of the engine (no future, no unit, no collected result, no output, no
\* return value); so spawning, attempts, retry decisions, joining and folding
\* all leave the flag as it is.
C16_EngineNeverWritesFlag ==
    [][signal_condition' # signal_condition =>
          /\ call = "map_concurrently_preemptible_retry"
          /\ signal_condition'
          /\ UNCHANGED <<argVars, seqVars, futures, completed, foldVars>>]_vars

\* C16 witness: the preemptible call ran to its return after the flag was
\* set, through attempts, a stop by the flag, the join and the fold.
C16_Witness ==
    /\ call = "map_concurrently_preemptible_retry"
    /\ signal_condition
    /\ pc = "done"
    /\ N >= 2
    /\ \E u \in 1..N : futures[u].st = "Preempted"
    /\ \E u \in 1..N : futures[u].calls > calls_at_signal[u]

\* C17: the main thread waits for a unit only when every unit has been
\* launched; a launched unit can always take its next step (enter the action,
\* return from it) whatever its siblings and the main thread are doing; and
\* until the call has returned some step is always possible, so the call
\* cannot block for good.
C17_UnitsStartBeforeAnyWait ==
    /\ Len(results) > 0 => Len(futures) = N
    /\ \A u \in 1..Len(futures) :
          /\ futures[u].st = "Pending" => ENABLED UnitStart(u)
          /\ futures[u].st = "Attempting" => ENABLED UnitFinish(u)
          /\ futures[u].st = "Retrying" =>
                ENABLED (UnitRetry(u) \/ UnitPreempt(u))
    /\ pc # "done" => ENABLED Next

\* C17 witness: while the main thread waits for unit i, still in its action
\* after a retry, a unit with a higher index has run and completed and the
\* flag is set.
C17_Witness ==
    /\ call = "map_concurrently_preemptible_retry"
    /\ pc = "join"
    /\ signal_condition
    /\ \E i, j \in 1..N :
          /\ i < j
          /\ Len(results) < i
          /\ futures[i].st = "Attempting"
          /\ futures[i].calls >= 2
          /\ futures[j].st \in Terminal

\* C18: under fair scheduling every call of a retry variant returns, also
\* when should_retry would answer true for ever (K above the limit) and when
\* the flag is never set; and no unit ever makes more attempts than the
\* policy's limit plus one.
C18_EventuallyReturns ==
    /\ [](\A u \in 1..Len(futures) : futures[u].calls <= retry_policy_ + 1)
    /\ (call # "map_concurrently") => <>(pc = "done")

\* C18 witness: a retry call returned with the flag never set and a unit that
\* was stopped by the limit alone, after limit + 1 attempts, should_retry
\* still answering true.
C18_Witness ==
    /\ call # "map_concurrently"
    /\ pc = "done"
    /\ ~signal_condition
    /\ K > retry_policy_
    /\ \E u \in 1..N :
          /\ futures[u].st = "Exhausted"
          /\ futures[u].calls = retry_policy_ + 1

====
